---- MODULE Spec2Model ----
(***************************************************************************)
(* Model of python_anvil/api.py: the Anvil facade.  Every public method is *)
(* one action.  `sent` is the sequence of requests the last call handed to *)
(* the HTTP collaborator, and the raw result the collaborator answers with *)
(* is chosen nondeterministically.  `remote` is what the service holds:    *)
(* for each organisation of the current user, the list of its casts (or    *)
(* welds).  Python values are tagged records [t, v]; a dict is an          *)
(* insertion-ordered sequence of <<key, value>> pairs, a str is a sequence *)
(* of lexemes, and query texts are character strings.                      *)
(***************************************************************************)
EXTENDS Integers, Sequences, FiniteSets, TLC

VARIABLES sent, lastRes, outcome, lastOp, lastIn, callerArgs, remote

vars == <<sent, lastRes, outcome, lastOp, lastIn, callerArgs, remote>>

\* ------------------------------------------------------------------ bounds
MaxArgs == 3
MaxOrgs == 2
MaxItems == 2

\* ------------------------------------------------------- Python values
None == [t |-> "NoneType"]
PyInt(n) == [t |-> "int", v |-> n]
PyBool(b) == [t |-> "bool", v |-> b]
Str(toks) == [t |-> "str", v |-> toks]
List(s) == [t |-> "list", v |-> s]
Dict(pairs) == [t |-> "dict", v |-> pairs]
Exc(name) == [t |-> "exc", v |-> name]

IsExc(x) == x.t = "exc"

\* bool(x): None, 0, "", [] and {} are falsy, everything else is truthy
Truthy(x) ==
    CASE x.t = "NoneType" -> FALSE
      [] x.t = "int" -> x.v # 0
      [] x.t = "bool" -> x.v
      [] x.t \in {"str", "list", "dict"} -> Len(x.v) > 0
      [] OTHER -> TRUE

\* key in d
HasKey(d, k) == \E i \in 1..Len(d.v) : d.v[i][1] = k

\* d[k]
GetItem(d, k) ==
    IF IsExc(d) THEN d
    ELSE IF d.t = "dict" /\ HasKey(d, k)
         THEN d.v[CHOOSE i \in 1..Len(d.v) : d.v[i][1] = k][2]
         ELSE Exc("KeyError")

\* sep.join(strs) on character strings
RECURSIVE Join(_, _)
Join(strs, sep) ==
    IF Len(strs) = 0 THEN ""
    ELSE IF Len(strs) = 1 THEN strs[1]
    ELSE strs[1] \o sep \o Join(Tail(strs), sep)

\* needle in hay, on character strings
Contains(hay, needle) ==
    \E i \in 1..(Len(hay) - Len(needle) + 1) :
        SubSeq(hay, i, i + Len(needle) - 1) = needle

\* hay.count(needle)
Count(hay, needle) ==
    Cardinality({i \in 1..(Len(hay) - Len(needle) + 1) :
                    SubSeq(hay, i, i + Len(needle) - 1) = needle})

\* ------------------------------------------------------------ requests
NoReq == [via |-> "none", target |-> "", body |-> None, params |-> None]
Req(via, target, body, params) ==
    [via |-> via, target |-> target, body |-> body, params |-> params]

\* Anvil.query: GraphqlRequest.post(query, variables=variables)
query(q, variables) == Req("graphql.post", q, variables, None)

\* --------------------------------------------------------- _get_return
\* get_data is named by the operation that defines it
orgItems(org, key) == GetItem(org, key)

\* mutant: later organisations come first
RECURSIVE flatten_reversed(_, _)
flatten_reversed(orgs, key) ==
    IF Len(orgs) = 0 THEN <<>>
    ELSE LET its == orgItems(orgs[1], key)
         IN  flatten_reversed(Tail(orgs), key) \o (IF IsExc(its) THEN <<its>> ELSE its.v)

RECURSIVE flatten(_, _)
flatten(orgs, key) ==
    IF Len(orgs) = 0 THEN <<>>
    ELSE LET its == orgItems(orgs[1], key)
         IN  (IF IsExc(its) THEN <<its>> ELSE its.v) \o flatten(Tail(orgs), key)

flattenOrgs(r, key) ==
    LET orgs == GetItem(GetItem(GetItem(r, "data"), "currentUser"), "organizations")
    IN  IF IsExc(orgs) THEN orgs
        ELSE LET out == flatten(orgs.v, key)
             IN  IF \E i \in 1..Len(out) : IsExc(out[i])
                 THEN Exc("KeyError") ELSE List(out)

get_data(op, r) ==
    CASE op = "get_cast" -> GetItem(GetItem(r, "data"), "cast")
      [] op = "get_casts" -> flattenOrgs(r, "casts")
      [] op = "get_current_user" -> GetItem(GetItem(r, "data"), "currentUser")
      [] op = "get_welds" -> flattenOrgs(r, "welds")
      [] op = "get_weld" -> GetItem(GetItem(r, "data"), "weld")

\* mutant: the nested response is unwrapped but the headers are not returned
_get_return_noHeaders(res, op) ==
    IF HasKey(res, "response") /\ HasKey(res, "headers")
    THEN get_data(op, GetItem(res, "response"))
    ELSE get_data(op, res)

_get_return(res, op) ==
    IF HasKey(res, "response") /\ HasKey(res, "headers")
    THEN LET d == get_data(op, GetItem(res, "response"))
         IN  IF IsExc(d) THEN d
             ELSE Dict(<< <<"response", d>>, <<"headers", GetItem(res, "headers")>> >>)
    ELSE get_data(op, res)

\* ------------------------------------------------------ handler results
\* What one facade call does: the requests it hands to the collaborator, in
\* order, and the exception it raises (None when it returns normally).
Sent(req) == [sent |-> <<req>>, raised |-> None]
Raise(e) == [sent |-> <<>>, raised |-> e]

\* -------------------------------------------------------------- get_cast
DefaultFields == <<"eid", "title", "fieldInfo">>

useFields(fields) == IF ~Truthy(fields) THEN DefaultFields ELSE fields.v

\* the list object `cast_args` names when the query is built (lines 162-170)
get_cast_args(eid, version_number, cast_args) ==
    LET a0 == IF ~Truthy(cast_args) THEN List(<<>>) ELSE cast_args
        a1 == List(Append(a0.v, <<"eid", "\"" \o eid \o "\"">>))
    IN  IF Truthy(version_number)
        THEN List(Append(a1.v, <<"versionNumber", ToString(version_number.v)>>))
        ELSE a1

\* TRUE when the local name still refers to the caller's list object
get_cast_aliased(cast_args) == Truthy(cast_args)

arg_str(cast_args) ==
    IF Len(cast_args.v) > 0
    THEN "(" \o Join([i \in 1..Len(cast_args.v) |->
                        cast_args.v[i][1] \o ":" \o cast_args.v[i][2]], ",") \o ")"
    ELSE ""

Sp12 == "            "
Sp14 == "              "
Sp16 == "                "
Sp18 == "                  "
Sp20 == "                    "

get_cast_query(eid, fields, version_number, cast_args) ==
    "{\n" \o Sp14 \o "cast " \o arg_str(get_cast_args(eid, version_number, cast_args))
          \o " {\n" \o Sp16 \o Join(useFields(fields), " ") \o "\n"
          \o Sp14 \o "}\n" \o Sp12 \o "}"

get_cast(eid, fields, version_number, cast_args) ==
    Sent(query(get_cast_query(eid, fields, version_number, cast_args), None))

\* ------------------------------------------------------------- get_casts
\* mutant: the filter is applied when show_all is set
get_casts_query_inverted(fields, show_all) ==
    LET cast_args == IF Truthy(show_all) THEN "(isTemplate: true)" ELSE ""
    IN  "{\n" \o Sp14 \o "currentUser {\n" \o Sp16 \o "organizations {\n"
              \o Sp18 \o "casts " \o cast_args \o " {\n"
              \o Sp20 \o Join(useFields(fields), " ") \o "\n"
              \o Sp18 \o "}\n" \o Sp16 \o "}\n" \o Sp14 \o "}\n" \o Sp12 \o "}"

get_casts_query(fields, show_all) ==
    LET cast_args == IF Truthy(show_all) THEN "" ELSE "(isTemplate: true)"
    IN  "{\n" \o Sp14 \o "currentUser {\n" \o Sp16 \o "organizations {\n"
              \o Sp18 \o "casts " \o cast_args \o " {\n"
              \o Sp20 \o Join(useFields(fields), " ") \o "\n"
              \o Sp18 \o "}\n" \o Sp16 \o "}\n" \o Sp14 \o "}\n" \o Sp12 \o "}"

get_casts(fields, show_all) == Sent(query(get_casts_query(fields, show_all), None))

\* ----------------------------------- get_current_user, get_welds, get_weld
\* fixed query texts, abbreviated to their selection paths
get_current_user == Sent(query("{ currentUser { name email eid role organizations { eid name slug casts { eid name } } } }", None))

get_welds == Sent(query("{ currentUser { organizations { welds { eid slug title forges { eid name } } } } }", None))

get_weld(eid) ==
    Sent(query("query WeldQuery($eid: String!) { weld(eid: $eid) { eid slug name forges { eid name slug } } }",
               Dict(<< <<"eid", Str(<<eid>>)>> >>)))

\* ---------------------------------------------------- payload classes
\* api_resources/payload.py: each payload class has ordered fields, some
\* required, and serialises under camel-case aliases.
Fields(kind) ==
    CASE kind = "FillPDFPayload" -> <<"data", "font_size">>
      [] kind = "GeneratePDFPayload" -> <<"data", "font_size">>
      [] kind = "CreateEtchPacketPayload" -> <<"name", "is_draft">>
      [] kind = "ForgeSubmitPayload" -> <<"forge_eid", "is_test">>
      [] kind = "GenerateEtchSigningURLPayload" -> <<"signer_eid", "client_user_id">>

Required(kind) ==
    CASE kind = "FillPDFPayload" -> {"data"}
      [] kind = "GeneratePDFPayload" -> {"data"}
      [] kind = "CreateEtchPacketPayload" -> {"name"}
      [] kind = "ForgeSubmitPayload" -> {"forge_eid"}
      [] kind = "GenerateEtchSigningURLPayload" -> {"signer_eid", "client_user_id"}

Alias(f) ==
    CASE f = "font_size" -> "fontSize"
      [] f = "is_draft" -> "isDraft"
      [] f = "forge_eid" -> "forgeEid"
      [] f = "is_test" -> "isTest"
      [] f = "signer_eid" -> "signerEid"
      [] f = "client_user_id" -> "clientUserId"
      [] OTHER -> f

Instance(kind, pairs) == [t |-> kind, v |-> pairs]

\* Payload(**mapping): every field is read under its alias, an absent field
\* is None, and a required field that is absent or None is a data error.
Model(kind, mapping, dataErr) ==
    LET fs == Fields(kind)
        val(f) == IF HasKey(mapping, Alias(f)) THEN GetItem(mapping, Alias(f)) ELSE None
    IN  IF \E f \in Required(kind) : val(f) = None
        THEN Exc(dataErr)
        ELSE Instance(kind, [i \in 1..Len(fs) |-> <<fs[i], val(fs[i])>>])

\* payload.dict(by_alias=..., exclude_none=...)
RECURSIVE dictPairs(_, _, _)
dictPairs(pairs, by_alias, exclude_none) ==
    IF Len(pairs) = 0 THEN <<>>
    ELSE LET k == IF by_alias THEN Alias(pairs[1][1]) ELSE pairs[1][1]
             rest == dictPairs(Tail(pairs), by_alias, exclude_none)
         IN  IF exclude_none /\ pairs[1][2] = None THEN rest
             ELSE << <<k, pairs[1][2]>> >> \o rest

dict(inst, by_alias, exclude_none) == Dict(dictPairs(inst.v, by_alias, exclude_none))

\* JSON text is a sequence of lexemes: { "k" : v , "k" : v }
Quote(x) == "\"" \o x \o "\""
Unquote(x) == SubSeq(x, 2, Len(x) - 1)
IsQuoted(x) == Len(x) >= 2 /\ SubSeq(x, 1, 1) = "\"" /\ SubSeq(x, Len(x), Len(x)) = "\""

jsonValue(x) == IF x = None THEN "null" ELSE Quote(x.v[1])

RECURSIVE jsonMembers(_)
jsonMembers(pairs) ==
    IF Len(pairs) = 0 THEN <<>>
    ELSE <<Quote(pairs[1][1]), ":", jsonValue(pairs[1][2])>>
         \o (IF Len(pairs) > 1 THEN <<",">> ELSE <<>>)
         \o jsonMembers(Tail(pairs))

json_dumps(mapping) == Str(<<"{">> \o jsonMembers(mapping.v) \o <<"}">>)

RECURSIVE parseMembers(_)
parseMembers(toks) ==
    IF Len(toks) = 0 THEN [ok |-> TRUE, v |-> <<>>]
    ELSE IF Len(toks) < 3 \/ ~IsQuoted(toks[1]) \/ toks[2] # ":"
              \/ ~(toks[3] = "null" \/ IsQuoted(toks[3]))
         THEN [ok |-> FALSE, v |-> <<>>]
    ELSE LET val == IF toks[3] = "null" THEN None ELSE Str(<<Unquote(toks[3])>>)
             pair == << <<Unquote(toks[1]), val>> >>
         IN  IF Len(toks) = 3 THEN [ok |-> TRUE, v |-> pair]
             ELSE IF toks[4] # "," \/ Len(toks) = 4 THEN [ok |-> FALSE, v |-> <<>>]
             ELSE LET rest == parseMembers(SubSeq(toks, 5, Len(toks)))
                  IN  [ok |-> rest.ok, v |-> pair \o rest.v]

json_loads(s) ==
    IF Len(s.v) < 2 \/ s.v[1] # "{" \/ s.v[Len(s.v)] # "}"
    THEN Exc("ValidationError")
    ELSE LET m == parseMembers(SubSeq(s.v, 2, Len(s.v) - 1))
         IN  IF m.ok THEN Dict(m.v) ELSE Exc("ValidationError")

\* Payload.parse_raw(text, content_type="application/json")
parse_raw(kind, text, dataErr) ==
    LET m == json_loads(text)
    IN  IF IsExc(m) THEN m ELSE Model(kind, m, dataErr)

\* ---------------------------------------------------------- mutations
\* api_resources/mutations: a mutation wraps the payload it will send
Mutation(cls, payload) == [t |-> cls, v |-> payload.v]

PayloadOf(cls) ==
    CASE cls = "CreateEtchPacket" -> "CreateEtchPacketPayload"
      [] cls = "ForgeSubmit" -> "ForgeSubmitPayload"
      [] cls = "GenerateEtchSigningURL" -> "GenerateEtchSigningURLPayload"

create_from_dict(cls, mapping, dataErr) ==
    LET p == Model(PayloadOf(cls), mapping, dataErr)
    IN  IF IsExc(p) THEN p ELSE Mutation(cls, p)

create_payload(mutation) == Instance(PayloadOf(mutation.t), mutation.v)

get_mutation(mutation) ==
    CASE mutation.t = "ForgeSubmit" -> "mutation ForgeSubmit"
      [] mutation.t = "GenerateEtchSigningURL" -> "mutation GenerateEtchSignURL"
      [] OTHER -> "mutation CreateEtchPacket"

\* multipart_helpers.get_multipart_payload: the whole GraphQL payload as the
\* multipart `files` mapping (no binary attachment is modelled)
get_multipart_payload(mutation) ==
    Dict(<< <<"operations",
              Dict(<< <<"query", Str(<<get_mutation(mutation)>>)>>,
                      <<"variables", dict(create_payload(mutation), TRUE, TRUE)>> >>)>>,
            <<"map", Dict(<<>>)>> >>)

\* ---------------------------------------------------- Anvil.mutate, etc.
mutate(mutation, variables) == Req("graphql.post", get_mutation(mutation), variables, None)

mutate_multipart(files) == Req("graphql.post_multipart", "", files, None)

\* -------------------------------------------------------------- fill_pdf
\* mutant: None-valued fields are kept in the body
fill_pdf_keepsNone(template_id, payload, version_number, dataErr) ==
    LET data == CASE payload.t = "dict" -> Model("FillPDFPayload", payload, dataErr)
                  [] payload.t = "str" -> parse_raw("FillPDFPayload", payload, dataErr)
                  [] payload.t = "FillPDFPayload" -> payload
                  [] OTHER -> Exc("ValueError")
        params == IF Truthy(version_number)
                  THEN Dict(<< <<"versionNumber", version_number>> >>) ELSE None
    IN  IF IsExc(data)
        THEN Raise(IF data.v = "KeyError" THEN Exc("ValueError") ELSE data)
        ELSE Sent(Req("rest.post", "fill/" \o template_id \o ".pdf",
                      IF Truthy(data) THEN dict(data, TRUE, FALSE) ELSE Dict(<<>>),
                      params))

fill_pdf(template_id, payload, version_number, dataErr) ==
    LET data == CASE payload.t = "dict" -> Model("FillPDFPayload", payload, dataErr)
                  [] payload.t = "str" -> parse_raw("FillPDFPayload", payload, dataErr)
                  [] payload.t = "FillPDFPayload" -> payload
                  [] OTHER -> Exc("ValueError")
        params == IF Truthy(version_number)
                  THEN Dict(<< <<"versionNumber", version_number>> >>) ELSE None
    IN  IF IsExc(data)
        THEN Raise(IF data.v = "KeyError" THEN Exc("ValueError") ELSE data)
        ELSE Sent(Req("rest.post", "fill/" \o template_id \o ".pdf",
                      IF Truthy(data) THEN dict(data, TRUE, TRUE) ELSE Dict(<<>>),
                      params))

\* ---------------------------------------------------------- generate_pdf
\* mutant: the payload is posted before it is validated
generate_pdf_postsFirst(payload, dataErr) ==
    IF ~Truthy(payload) THEN Raise(Exc("ValueError"))
    ELSE LET data == CASE payload.t = "dict" -> Model("GeneratePDFPayload", payload, dataErr)
                       [] payload.t = "str" -> parse_raw("GeneratePDFPayload", payload, dataErr)
                       [] payload.t = "GeneratePDFPayload" -> payload
                       [] OTHER -> Exc("ValueError")
         IN  IF IsExc(data)
             THEN [sent |-> <<Req("rest.post", "generate-pdf", payload, None)>>, raised |-> data]
             ELSE Sent(Req("rest.post", "generate-pdf", dict(data, TRUE, TRUE), None))

generate_pdf(payload, dataErr) ==
    IF ~Truthy(payload) THEN Raise(Exc("ValueError"))
    ELSE LET data == CASE payload.t = "dict" -> Model("GeneratePDFPayload", payload, dataErr)
                       [] payload.t = "str" -> parse_raw("GeneratePDFPayload", payload, dataErr)
                       [] payload.t = "GeneratePDFPayload" -> payload
                       [] OTHER -> Exc("ValueError")
         IN  IF IsExc(data) THEN Raise(data)
             ELSE Sent(Req("rest.post", "generate-pdf", dict(data, TRUE, TRUE), None))

\* ---------------------------------------------------- create_etch_packet
\* mutant: `json` is accepted but never parsed
create_etch_packet_ignoresJson(payload, json, dataErr) ==
    IF ~(Truthy(payload) \/ Truthy(json)) THEN Raise(Exc("TypeError"))
    ELSE LET p == payload
             mutation == CASE p.t = "exc" -> p
                           [] p.t = "dict" -> create_from_dict("CreateEtchPacket", p, dataErr)
                           [] p.t = "CreateEtchPacketPayload" -> Mutation("CreateEtchPacket", p)
                           [] p.t = "CreateEtchPacket" -> p
                           [] OTHER -> Exc("ValueError")
         IN  IF IsExc(mutation) THEN Raise(mutation)
             ELSE Sent(mutate_multipart(get_multipart_payload(mutation)))

create_etch_packet(payload, json, dataErr) ==
    IF ~(Truthy(payload) \/ Truthy(json)) THEN Raise(Exc("TypeError"))
    ELSE LET p == IF Truthy(json)
                  THEN parse_raw("CreateEtchPacketPayload", json, dataErr)
                  ELSE payload
             mutation == CASE p.t = "exc" -> p
                           [] p.t = "dict" -> create_from_dict("CreateEtchPacket", p, dataErr)
                           [] p.t = "CreateEtchPacketPayload" -> Mutation("CreateEtchPacket", p)
                           [] p.t = "CreateEtchPacket" -> p
                           [] OTHER -> Exc("ValueError")
         IN  IF IsExc(mutation) THEN Raise(mutation)
             ELSE Sent(mutate_multipart(get_multipart_payload(mutation)))

\* ----------------------------------------------------------- forge_submit
\* mutant: the arguments are tested against None instead of for truth
forge_submit_noneCheck(payload, json, dataErr) ==
    IF json = None /\ payload = None THEN Raise(Exc("TypeError"))
    ELSE LET p == IF Truthy(json)
                  THEN parse_raw("ForgeSubmitPayload", json, dataErr)
                  ELSE payload
             mutation == CASE p.t = "exc" -> p
                           [] p.t = "dict" -> create_from_dict("ForgeSubmit", p, dataErr)
                           [] p.t = "ForgeSubmitPayload" -> Mutation("ForgeSubmit", p)
                           [] OTHER -> Exc("ValueError")
         IN  IF IsExc(mutation) THEN Raise(mutation)
             ELSE Sent(mutate(mutation, dict(create_payload(mutation), TRUE, TRUE)))

forge_submit(payload, json, dataErr) ==
    IF ~(Truthy(json) \/ Truthy(payload)) THEN Raise(Exc("TypeError"))
    ELSE LET p == IF Truthy(json)
                  THEN parse_raw("ForgeSubmitPayload", json, dataErr)
                  ELSE payload
             mutation == CASE p.t = "exc" -> p
                           [] p.t = "dict" -> create_from_dict("ForgeSubmit", p, dataErr)
                           [] p.t = "ForgeSubmitPayload" -> Mutation("ForgeSubmit", p)
                           [] OTHER -> Exc("ValueError")
         IN  IF IsExc(mutation) THEN Raise(mutation)
             ELSE Sent(mutate(mutation, dict(create_payload(mutation), TRUE, TRUE)))

\* ------------------------- generate_etch_signing_url, download_documents
generate_etch_signing_url(signer_eid, client_user_id) ==
    LET mutation == Mutation("GenerateEtchSigningURL",
                        Instance("GenerateEtchSigningURLPayload",
                                 << <<"signer_eid", Str(<<signer_eid>>)>>,
                                    <<"client_user_id", Str(<<client_user_id>>)>> >>))
    IN  Sent(mutate(mutation, dict(create_payload(mutation), TRUE, FALSE)))

download_documents(document_group_eid) ==
    Sent(Req("plain.get", "document-group/" \o document_group_eid \o ".zip", None, None))

\* ------------------------------------------- what the collaborator answers
SeqsUpTo(S, n) == UNION {[1..k -> S] : k \in 0..n}

Items == {Str(<<"i1">>), Str(<<"i2">>)}
Headers == Dict(<< <<"x-ratelimit-remaining", Str(<<"9">>)>> >>)

Org(key, its) == Dict(<< <<key, List(its)>> >>)

\* every per-organisation listing within the bounds, and one sample
Remotes == SeqsUpTo(SeqsUpTo(Items, MaxItems), MaxOrgs)

SampleRemote == << <<Str(<<"i1">>), Str(<<"i2">>)>>, <<Str(<<"i1">>)>> >>

OrgsBody(key) ==
    Dict(<< <<"data", Dict(<< <<"currentUser",
            Dict(<< <<"organizations",
                List([i \in 1..Len(remote) |-> Org(key, remote[i])])>> >>)>> >>)>> >>)

Bodies(op) ==
    CASE op = "get_cast" -> {Dict(<< <<"data", Dict(<< <<"cast", it>> >>)>> >>) : it \in Items}
      [] op = "get_weld" -> {Dict(<< <<"data", Dict(<< <<"weld", it>> >>)>> >>) : it \in Items}
      [] op = "get_current_user" ->
            {Dict(<< <<"data", Dict(<< <<"currentUser", it>> >>)>> >>) : it \in Items}
      [] op = "get_casts" -> {OrgsBody("casts")}
      [] op = "get_welds" -> {OrgsBody("welds")}

\* a bare body, the body with headers (include_headers), and results holding
\* only one of the two keys
RawResults(op) ==
    UNION {{b,
            Dict(<< <<"response", b>>, <<"headers", Headers>> >>),
            Dict(<< <<"response", b>> >>),
            Dict(b.v \o << <<"headers", Headers>> >>)} : b \in Bodies(op)}

PlainResults == {Str(<<"%PDF">>)}
MutationResults == {Dict(<< <<"data", Str(<<"ok">>)>> >>)}

\* ------------------------------------------------------------ the caller
Eids == {"X"}
FieldsInputs == {None, List(<<>>), List(<<"title", "eid">>)}
VersionInputs == {None, PyInt(0), PyInt(3)}
LiteralArgs == List(<< <<"a", "1">> >>)
CallerLists == {List(<<>>), LiteralArgs}
DataErrors == {"KeyError", "ValidationError"}
FieldValues == {None, Str(<<"v1">>)}

RECURSIVE MappingPairs(_)
MappingPairs(fs) ==
    IF Len(fs) = 0 THEN {<<>>}
    ELSE LET rest == MappingPairs(Tail(fs))
         IN  rest \cup {<< <<Alias(fs[1]), x>> >> \o r : x \in FieldValues, r \in rest}

Mappings(kind) == {Dict(ps) : ps \in MappingPairs(Fields(kind))}

Instances(kind) ==
    {Model(kind, m, "KeyError") : m \in Mappings(kind)} \ {Exc("KeyError")}

JsonInputs(kind) ==
    {json_dumps(m) : m \in Mappings(kind)} \cup {Str(<<>>), Str(<<"{">>)}

PayloadInputs(kind) ==
    Mappings(kind) \cup JsonInputs(kind) \cup Instances(kind) \cup {None, PyInt(7)}

MutationInputs(cls) ==
    {[payload |-> p, json |-> None] : p \in PayloadInputs(PayloadOf(cls))}
    \cup {[payload |-> None, json |-> j] : j \in JsonInputs(PayloadOf(cls))}
    \cup {[payload |-> PyInt(7), json |-> j] : j \in JsonInputs(PayloadOf(cls))}
    \cup {[payload |-> Dict(<<>>), json |-> Str(<<>>)]}

Init ==
    /\ sent = <<>>
    /\ lastRes = None
    /\ outcome = None
    /\ lastOp = "init"
    /\ lastIn = [none |-> TRUE]
    /\ callerArgs \in CallerLists
    /\ remote = SampleRemote

\* One facade call: h is what the handler did, unwrapped what it returns for
\* the raw result when it did not raise.
Call(op, in, h, raw, unwrapped) ==
    /\ sent' = h.sent
    /\ lastRes' = IF IsExc(h.raised) THEN None ELSE raw
    /\ outcome' = IF IsExc(h.raised) THEN h.raised ELSE unwrapped
    /\ lastOp' = op
    /\ lastIn' = in
    /\ UNCHANGED remote

FillPdf ==
    \E payload \in PayloadInputs("FillPDFPayload"), vn \in VersionInputs,
       dataErr \in DataErrors, raw \in PlainResults :
        /\ Call("fill_pdf",
                [template_id |-> "T1", payload |-> payload, version_number |-> vn],
                fill_pdf("T1", payload, vn, dataErr), raw, raw)
        /\ UNCHANGED callerArgs

GeneratePdf ==
    \E payload \in PayloadInputs("GeneratePDFPayload"),
       dataErr \in DataErrors, raw \in PlainResults :
        /\ Call("generate_pdf", [payload |-> payload],
                generate_pdf(payload, dataErr), raw, raw)
        /\ UNCHANGED callerArgs

GetCast ==
    \E eid \in Eids, fields \in FieldsInputs, vn \in VersionInputs,
       how \in {"none", "caller", "literal"}, raw \in RawResults("get_cast") :
        LET cast_args == CASE how = "none" -> None
                           [] how = "caller" -> callerArgs
                           [] how = "literal" -> LiteralArgs
            after == get_cast_args(eid, vn, cast_args)
        IN  /\ Len(after.v) <= MaxArgs
            /\ Call("get_cast",
                    [eid |-> eid, fields |-> fields, version_number |-> vn,
                     cast_args |-> cast_args, shared |-> how = "caller"],
                    get_cast(eid, fields, vn, cast_args), raw,
                    _get_return(raw, "get_cast"))
            /\ callerArgs' = IF how = "caller" /\ get_cast_aliased(cast_args)
                             THEN after ELSE callerArgs

GetCastsWith(fieldsSet) ==
    \E fields \in fieldsSet, show_all \in {PyBool(FALSE), PyBool(TRUE)},
       raw \in RawResults("get_casts") :
        /\ Call("get_casts", [fields |-> fields, show_all |-> show_all],
                get_casts(fields, show_all), raw, _get_return(raw, "get_casts"))
        /\ UNCHANGED callerArgs

GetCasts == GetCastsWith(FieldsInputs)

GetCurrentUser ==
    \E raw \in RawResults("get_current_user") :
        /\ Call("get_current_user", [none |-> TRUE], get_current_user, raw,
                _get_return(raw, "get_current_user"))
        /\ UNCHANGED callerArgs

GetWelds ==
    \E raw \in RawResults("get_welds") :
        /\ Call("get_welds", [none |-> TRUE], get_welds, raw,
                _get_return(raw, "get_welds"))
        /\ UNCHANGED callerArgs

GetWeld ==
    \E eid \in Eids, raw \in RawResults("get_weld") :
        /\ Call("get_weld", [eid |-> eid], get_weld(eid), raw,
                _get_return(raw, "get_weld"))
        /\ UNCHANGED callerArgs

CreateEtchPacket ==
    \E in \in MutationInputs("CreateEtchPacket")
              \cup {[payload |-> Mutation("CreateEtchPacket", p), json |-> None] :
                        p \in Instances("CreateEtchPacketPayload")},
       dataErr \in DataErrors, raw \in MutationResults :
        /\ Call("create_etch_packet", in,
                create_etch_packet(in.payload, in.json, dataErr), raw, raw)
        /\ UNCHANGED callerArgs

GenerateEtchSigningUrl ==
    \E signer \in Eids, user \in {"u1", "u2"}, raw \in MutationResults :
        /\ Call("generate_etch_signing_url",
                [signer_eid |-> signer, client_user_id |-> user],
                generate_etch_signing_url(signer, user), raw, raw)
        /\ UNCHANGED callerArgs

DownloadDocuments ==
    \E eid \in Eids, raw \in PlainResults :
        /\ Call("download_documents", [document_group_eid |-> eid],
                download_documents(eid), raw, raw)
        /\ UNCHANGED callerArgs

ForgeSubmit ==
    \E in \in MutationInputs("ForgeSubmit"),
       dataErr \in DataErrors, raw \in MutationResults :
        /\ Call("forge_submit", in,
                forge_submit(in.payload, in.json, dataErr), raw, raw)
        /\ UNCHANGED callerArgs

Next ==
    \/ FillPdf
    \/ GeneratePdf
    \/ GetCast
    \/ GetCasts
    \/ GetCurrentUser
    \/ GetWelds
    \/ GetWeld
    \/ CreateEtchPacket
    \/ GenerateEtchSigningUrl
    \/ DownloadDocuments
    \/ ForgeSubmit

Spec == Init /\ [][Next]_vars

\* get_casts and get_welds against every remote listing within the bounds
InitFlatten ==
    /\ sent = <<>>
    /\ lastRes = None
    /\ outcome = None
    /\ lastOp = "init"
    /\ lastIn = [none |-> TRUE]
    /\ callerArgs = List(<<>>)
    /\ remote \in Remotes

FlattenCasts == GetCastsWith({None})

NextFlatten ==
    \/ FlattenCasts
    \/ GetWelds

SpecFlatten == InitFlatten /\ [][NextFlatten]_vars

\* ================================================================ claims
QueryOps == {"get_cast", "get_casts", "get_current_user", "get_welds", "get_weld"}

\* the last call raised before any result was consumed
Raised == lastOp # "init" /\ lastRes = None /\ IsExc(outcome)

\* ValidationError is a subclass of ValueError
IsValueError(e) == e \in {Exc("ValueError"), Exc("ValidationError")}

\* C1: a query operation given a raw result with both "response" and
\* "headers" returns exactly {response: get_data(res["response"]),
\* headers: res["headers"]}; given anything else it returns get_data(res).
C1_Unwrap ==
    (lastOp \in QueryOps /\ ~Raised) =>
        IF HasKey(lastRes, "response") /\ HasKey(lastRes, "headers")
        THEN /\ outcome.t = "dict"
             /\ Len(outcome.v) = 2
             /\ outcome.v[1] = <<"response", get_data(lastOp, GetItem(lastRes, "response"))>>
             /\ outcome.v[2] = <<"headers", GetItem(lastRes, "headers")>>
        ELSE outcome = get_data(lastOp, lastRes)

C1_Witness ==
    /\ lastOp = "get_welds"
    /\ HasKey(lastRes, "response") /\ HasKey(lastRes, "headers")
    /\ outcome.t = "dict"
    /\ GetItem(outcome, "headers") = Headers
    /\ GetItem(outcome, "response") = List(<<Str(<<"i1">>), Str(<<"i2">>), Str(<<"i1">>)>>)

\* C7: get_casts filters on (isTemplate: true) unless show_all, and asks for
\* eid title fieldInfo when no fields are given.
C7_CastsFilter ==
    lastOp = "get_casts" =>
        /\ Len(sent) = 1
        /\ ~Truthy(lastIn.show_all) => Contains(sent[1].target, "casts (isTemplate: true) {")
        /\ Truthy(lastIn.show_all) => ~Contains(sent[1].target, "isTemplate")
        /\ ~Truthy(lastIn.fields) => Contains(sent[1].target, "{\n" \o Sp20 \o "eid title fieldInfo\n")

C7_Witness ==
    /\ lastOp = "get_casts"
    /\ lastIn.show_all = PyBool(TRUE)
    /\ lastIn.fields = None
    /\ Len(sent) = 1
    /\ Contains(sent[1].target, "casts  {")

\* the list a flattening operation returned, with or without headers
Flattened ==
    IF outcome.t = "dict" THEN GetItem(outcome, "response") ELSE outcome

RECURSIVE ItemsBefore(_)
ItemsBefore(i) ==
    IF i <= 1 THEN 0 ELSE Len(remote[i - 1]) + ItemsBefore(i - 1)

\* C10: get_casts / get_welds return the per-organisation lists concatenated
\* in organisation order: the j-th item of the i-th organisation sits at
\* position (items of earlier organisations) + j, and nothing else is there.
C10_Flatten ==
    (lastOp \in {"get_casts", "get_welds"} /\ ~IsExc(outcome)) =>
        /\ Flattened.t = "list"
        /\ Len(Flattened.v) = ItemsBefore(Len(remote) + 1)
        /\ \A i \in 1..Len(remote) : \A j \in 1..Len(remote[i]) :
              Flattened.v[ItemsBefore(i) + j] = remote[i][j]

C10_Witness ==
    /\ lastOp = "get_welds"
    /\ remote = << <<Str(<<"i2">>), Str(<<"i1">>)>>, <<Str(<<"i1">>), Str(<<"i1">>)>> >>
    /\ outcome = List(<<Str(<<"i2">>), Str(<<"i1">>), Str(<<"i1">>), Str(<<"i1">>)>>)

\* C4: create_etch_packet and forge_submit raise a type error when payload
\* and json are both absent or falsy.
C4_NeitherGiven ==
    (lastOp \in {"create_etch_packet", "forge_submit"}
        /\ ~Truthy(lastIn.payload) /\ ~Truthy(lastIn.json)) =>
        outcome = Exc("TypeError")

C4_Witness ==
    /\ lastOp = "create_etch_packet"
    /\ lastIn.payload = Dict(<<>>)
    /\ lastIn.json = Str(<<>>)
    /\ outcome = Exc("TypeError")

\* C8: a call that raises for its input hands no request to the HTTP
\* collaborator; every other call hands it exactly one.
C8_OneCall ==
    lastOp # "init" => IF Raised THEN sent = <<>> ELSE Len(sent) = 1

C8_Witness ==
    /\ lastOp = "generate_pdf"
    /\ lastIn.payload.t = "dict"
    /\ Len(lastIn.payload.v) > 0
    /\ Raised
    /\ sent = <<>>

\* the mapping a fill_pdf payload denotes, whichever form it came in
Denoted(payload) ==
    CASE payload.t = "dict" -> payload
      [] payload.t = "str" -> json_loads(payload)
      [] payload.t = "FillPDFPayload" -> dict(payload, TRUE, FALSE)
      [] OTHER -> Exc("ValueError")

MissingRequired(kind, m) ==
    \E f \in Required(kind) : ~HasKey(m, Alias(f)) \/ GetItem(m, Alias(f)) = None

\* C3: fill_pdf raises a value error when a required field is missing and
\* otherwise POSTs the payload, under its aliases and without None-valued
\* fields, to fill/{template_id}.pdf.
C3_FillPdf ==
    (lastOp = "fill_pdf" /\ ~IsExc(Denoted(lastIn.payload))) =>
        IF MissingRequired("FillPDFPayload", Denoted(lastIn.payload))
        THEN IsValueError(outcome) /\ sent = <<>>
        ELSE /\ Len(sent) = 1
             /\ sent[1].via = "rest.post"
             /\ sent[1].target = "fill/" \o lastIn.template_id \o ".pdf"
             /\ sent[1].body =
                    Dict(SelectSeq(Denoted(lastIn.payload).v, LAMBDA kv : kv[2] # None))

C3_Witness ==
    /\ lastOp = "fill_pdf"
    /\ lastIn.payload = Dict(<< <<"data", Str(<<"v1">>)>>, <<"fontSize", None>> >>)
    /\ Len(sent) = 1
    /\ sent[1].body = Dict(<< <<"data", Str(<<"v1">>)>> >>)

NormalizingOps == {"fill_pdf", "generate_pdf", "create_etch_packet", "forge_submit"}
Forms == {"mapping", "json", "typed"}

KindOf(op) ==
    CASE op = "fill_pdf" -> "FillPDFPayload"
      [] op = "generate_pdf" -> "GeneratePDFPayload"
      [] op = "create_etch_packet" -> "CreateEtchPacketPayload"
      [] op = "forge_submit" -> "ForgeSubmitPayload"

\* content c handed to op in the given form: fill_pdf and generate_pdf take
\* every form as `payload`, the two mutations take JSON text as `json`
ArgsFor(op, form, c) ==
    CASE form = "mapping" -> [payload |-> dict(c, TRUE, FALSE), json |-> None]
      [] form = "typed" -> [payload |-> c, json |-> None]
      [] form = "json" ->
            IF op \in {"fill_pdf", "generate_pdf"}
            THEN [payload |-> json_dumps(dict(c, TRUE, FALSE)), json |-> None]
            ELSE [payload |-> None, json |-> json_dumps(dict(c, TRUE, FALSE))]

GivenAs(op, form, c) ==
    /\ lastOp = op
    /\ lastIn.payload = ArgsFor(op, form, c).payload
    /\ op \in {"create_etch_packet", "forge_submit"} => lastIn.json = ArgsFor(op, form, c).json

Dispatch(op, a) ==
    CASE op = "fill_pdf" -> fill_pdf("T1", a.payload, None, "KeyError")
      [] op = "generate_pdf" -> generate_pdf(a.payload, "KeyError")
      [] op = "create_etch_packet" -> create_etch_packet(a.payload, a.json, "KeyError")
      [] op = "forge_submit" -> forge_submit(a.payload, a.json, "KeyError")

BodiesOf(reqs) == [i \in 1..Len(reqs) |-> reqs[i].body]

DeclaredEtchTypes == {"dict", "CreateEtchPacketPayload", "CreateEtchPacket", "str"}

WellFormed(kind, payload) ==
    CASE payload.t = "dict" -> ~MissingRequired(kind, payload)
      [] payload.t = "str" ->
            ~IsExc(json_loads(payload)) /\ ~MissingRequired(kind, json_loads(payload))
      [] OTHER -> TRUE

\* C5: create_etch_packet with a non-empty payload and no json raises a value
\* error exactly when the payload's type is not one it declares, and
\* dispatches the multipart mutation for every declared type.
C5_UnsupportedType ==
    (lastOp = "create_etch_packet" /\ Truthy(lastIn.payload) /\ lastIn.json = None
        /\ WellFormed("CreateEtchPacketPayload", lastIn.payload)) =>
        IF lastIn.payload.t \in DeclaredEtchTypes
        THEN Len(sent) = 1 /\ sent[1].via = "graphql.post_multipart" /\ ~IsExc(outcome)
        ELSE IsValueError(outcome) /\ sent = <<>>

\* C6: get_cast with no fields asks for eid title fieldInfo, passes
\* eid:"<eid>", and passes versionNumber:<n> exactly when a version_number
\* is supplied.
C6_CastQuery ==
    lastOp = "get_cast" =>
        /\ Len(sent) = 1
        /\ ~Truthy(lastIn.fields) => Contains(sent[1].target, "{\n" \o Sp16 \o "eid title fieldInfo\n")
        /\ Contains(sent[1].target, "eid:\"" \o lastIn.eid \o "\"")
        /\ lastIn.version_number # None =>
              Contains(sent[1].target, "versionNumber:" \o ToString(lastIn.version_number.v))
        /\ lastIn.version_number = None => ~Contains(sent[1].target, "versionNumber")

\* C9: get_cast leaves the caller's cast_args list as it was, and the query
\* it builds carries exactly one eid argument.
C9_NoSharedState ==
    [][lastOp' = "get_cast" =>
          /\ callerArgs' = callerArgs
          /\ Len(sent') = 1
          /\ Count(sent'[1].target, "eid:") = 1]_vars

====
